---- MODULE Spec2Model ----
(***************************************************************************)
(* Model of the monitoring core of api-latency-monitor (LatencyMonitor):   *)
(* the provider registry, the start/stop scheduler, the probe rounds with  *)
(* their all-settled join, the per-provider statistics and the update      *)
(* notification channel.                                                   *)
(*                                                                         *)
(* Granularity: JavaScript runs one task at a time.  A call of start,      *)
(* stop, clearStats, setUpdateCallback or runTests, a timer tick and the   *)
(* settling of one network request are tasks; the continuation of runTests *)
(* after its await is a microtask, which runs before the next task.        *)
(***************************************************************************)
EXTENDS Integers, Sequences, FiniteSets, TLC

VARIABLES
  providers,          \* this.providers: the runtime records, in registry order
  isMonitoring,       \* this.isMonitoring
  monitoringInterval, \* this.monitoringInterval: the timer handle or null
  testMode,           \* this.testMode
  totalTests,         \* this.totalTests
  onUpdate,           \* this.onUpdate: the registered listener
  timers,             \* the repeating timers armed with setInterval
  nextTimerId,        \* the handle the next setInterval returns
  launched,           \* number of calls of runTests so far
  rounds,             \* the calls of runTests that have not returned yet
  inflight,           \* the probes dispatched whose request has not settled yet
  delivered,          \* the events the last step handed to a listener, in order
  now,                \* Date.now()
  lastCall,           \* the operation that ran last: the call's name, or how
                      \* the fetch settled whose probe resumed
  hasAbortController, \* typeof AbortController !== 'undefined' in this browser
  rendered            \* the round counter the page shows: the totalTests
                      \* that App.updateDisplay read last

vars == <<providers, isMonitoring, monitoringInterval, testMode, totalTests,
          onUpdate, timers, nextTimerId, launched, rounds, inflight, delivered,
          now, lastCall, hasAbortController, rendered>>

----------------------------------------------------------------------------
(* Bounds of the model *)

\* number of records in the registry the monitor is constructed from: 0..MaxProviders
MaxProviders == 2
\* rounds launched in one behaviour (start, timer tick or manual trigger)
MaxRounds == 2
\* probes dispatched in one behaviour, over all rounds
MaxProbes == 2
\* measured latencies are 0..MaxLatency milliseconds
MaxLatency == 1
\* probes whose results one provider records in StatsSpec
MaxSamples == 5
\* HistorySpec records HistoryLimit + MaxOverflow probes of one provider, of
\* which at most MaxFailures fail
MaxOverflow == 2
MaxFailures == 1
\* rounds launched in one behaviour of ManualSpec
MaxManualRounds == 3
\* probes whose results one provider records in BadgeSpec
MaxBadgeSamples == 3

----------------------------------------------------------------------------
(* Values of the program *)

\* JavaScript null (stats.current, monitoringInterval) and undefined (onUpdate)
Null == -1
Undefined == "undefined"
\* JavaScript Infinity, above every latency and every sum of latencies
Infinity == 1000000
\* history keeps the last HistoryLimit samples
HistoryLimit == 100

API_PROVIDERS ==
  << [id |-> "openai", name |-> "OpenAI", endpoint |-> "https://api.openai.com",
      pingPath |-> "/v1/models", color |-> "#10a37f"],
     [id |-> "anthropic", name |-> "Anthropic (Claude)",
      endpoint |-> "https://api.anthropic.com",
      pingPath |-> "/v1/models", color |-> "#d4a373"],
     [id |-> "google", name |-> "Google AI",
      endpoint |-> "https://generativelanguage.googleapis.com",
      pingPath |-> "/v1beta/models", color |-> "#4285f4"],
     [id |-> "azure", name |-> "Azure OpenAI",
      endpoint |-> "https://azure.microsoft.com",
      pingPath |-> "/", color |-> "#0078d4"] >>

\* the registries the monitor is constructed from: the first n records
Registries == { SubSeq(API_PROVIDERS, 1, n) : n \in 0..MaxProviders }

\* test modes offered by the UI
Modes == {"ping", "simple", "full"}

\* the listeners a caller registers
Listeners == {"f", "g"}
\* what a listener does with an event: f returns, g throws on every event
ListenerThrows(listener, event) == listener = "g"
\* a value that is not a function, as an argument of setUpdateCallback
NotAFunction == "notAFunction"

\* measured elapsed times, Math.round(endTime - startTime)
Latencies == 0..MaxLatency

\* how a fetch settles: it resolves, rejects with a non-timeout error, or is
\* aborted by the 10 s timeout (AbortError)
FetchOutcomes == {"resolved", "rejected", "aborted"}
\* pingTest returns before it makes a request
NoFetch == "none"

\* interval specifiers, as strings of characters: 'manual', the 5 seconds
\* that are the shortest interval of the UI, and values that are no period
Manual == <<"m", "a", "n", "u", "a", "l">>
Intervals == { Manual, <<"5", "0", "0", "0">>, <<"0">>, <<"-", "5">>, <<"x">> }

----------------------------------------------------------------------------
(* parseInt(s, 10) *)

NaN == -999999

DigitValue(c) ==
  CASE c = "0" -> 0 [] c = "1" -> 1 [] c = "2" -> 2 [] c = "3" -> 3
    [] c = "4" -> 4 [] c = "5" -> 5 [] c = "6" -> 6 [] c = "7" -> 7
    [] c = "8" -> 8 [] c = "9" -> 9 [] OTHER -> -1

RECURSIVE ParseDigits(_, _, _)
\* value of the longest prefix of digits of s from position i on; acc is the
\* value so far, NaN when no digit has been read
ParseDigits(s, i, acc) ==
  IF i > Len(s) \/ DigitValue(s[i]) < 0
  THEN acc
  ELSE ParseDigits(s, i + 1, (IF acc = NaN THEN 0 ELSE acc) * 10 + DigitValue(s[i]))

parseInt(s) ==
  IF Len(s) > 0 /\ s[1] = "-"
  THEN LET v == ParseDigits(s, 2, NaN) IN IF v = NaN THEN NaN ELSE 0 - v
  ELSE IF Len(s) > 0 /\ s[1] = "+"
  THEN ParseDigits(s, 2, NaN)
  ELSE ParseDigits(s, 1, NaN)

----------------------------------------------------------------------------
(* constructor *)

InitialStats ==
  [current |-> Null, min |-> Infinity, max |-> 0, avg |-> 0, total |-> 0,
   count |-> 0, successes |-> 0, failures |-> 0, history |-> << >>]

\* a null or undefined entry of the registry array
NullEntry == [null |-> TRUE]

\* this.providers: one runtime record per registry entry that is not null
\* (map, then filter(Boolean)); the fields of the entry are copied as they are
Construct(registry) ==
  LET kept == SelectSeq(registry, LAMBDA entry : entry # NullEntry)
  IN  [i \in 1..Len(kept) |->
         [id |-> kept[i].id, name |-> kept[i].name,
          endpoint |-> kept[i].endpoint, pingPath |-> kept[i].pingPath,
          color |-> kept[i].color,
          stats |-> InitialStats, status |-> "idle"]]

Init ==
  /\ providers \in { Construct(reg) : reg \in Registries }
  /\ isMonitoring = FALSE
  /\ monitoringInterval = Null
  /\ testMode = "ping"
  /\ totalTests = 0
  /\ onUpdate = Undefined
  /\ timers = {}
  /\ nextTimerId = 1
  /\ launched = 0
  /\ rounds = << >>
  /\ inflight = {}
  /\ delivered = << >>
  /\ now = 0
  /\ lastCall = "constructor"
  /\ hasAbortController = TRUE
  /\ rendered = 0

----------------------------------------------------------------------------
(* notifyUpdate: the listener is called inside try/catch *)

\* what the listener is handed: the event and the live provider object, of
\* which the log keeps the status and the count at the time of the call;
\* round is the round the probe belongs to
EventRecord(listener, event, provider, round) ==
  [to |-> listener, event |-> event, provider |-> provider.id, round |-> round,
   status |-> provider.status, count |-> provider.stats.count]

\* log: the events delivered so far in this step.  Result: the log after the
\* call, and
\* notifyUpdate without its try/catch: what the listener throws leaves it
notifyUpdate_NoCatch(log, listener, event, provider, round) ==
  IF listener # Undefined
  THEN [log |-> Append(log, EventRecord(listener, event, provider, round)),
        raised |-> ListenerThrows(listener, event)]
  ELSE [log |-> log, raised |-> FALSE]

\* whether an exception leaves notifyUpdate: whatever the listener throws is
\* caught and logged
notifyUpdate(log, listener, event, provider, round) ==
  IF listener # Undefined
  THEN [log |-> Append(log, EventRecord(listener, event, provider, round)),
        raised |-> ListenerThrows(listener, event) /\ FALSE]
  ELSE [log |-> log, raised |-> FALSE]

----------------------------------------------------------------------------
(* updateStats *)

\* the quotient truncated instead of rounded (Math.floor)
RoundDiv_Truncates(a, b) == a \div b

\* Math.round(a / b) for a >= 0, b > 0: halves round up; Infinity / b is
\* Infinity
RoundDiv(a, b) == IF a >= Infinity THEN Infinity ELSE (2 * a + b) \div (2 * b)

\* a + b for a, b >= 0: a sum with Infinity is Infinity
Plus(a, b) == IF a >= Infinity \/ b >= Infinity THEN Infinity ELSE a + b

\* x || d : d when x is falsy (0, null, NaN)
OrElse(x, d) == IF x = 0 \/ x = Null \/ x = NaN THEN d ELSE x

Min2(a, b) == IF a < b THEN a ELSE b

\* the second argument taken for the maximum: max becomes the last latency
Max2_TakesLatest(a, b) == b

Max2(a, b) == IF a > b THEN a ELSE b

\* push without the shift: the history grows without limit
PushHistory_NeverShifts(history, sample) == Append(history, sample)

\* push, then pop instead of shift: the newest sample is evicted
PushHistory_EvictsNewest(history, sample) ==
  LET pushed == Append(history, sample)
  IN  IF Len(pushed) > HistoryLimit
      THEN SubSeq(pushed, 1, Len(pushed) - 1)
      ELSE pushed

\* history.push(sample); if (history.length > 100) history.shift()
PushHistory(history, sample) ==
  LET pushed == Append(history, sample)
  IN  IF Len(pushed) > HistoryLimit THEN Tail(pushed) ELSE pushed

\* updateStats counting a probe only when it succeeded
updateStats_CountsSuccessesOnly(stats, latency, success, timestamp) ==
  IF success /\ latency # Null /\ latency # NaN
  THEN LET successes == OrElse(stats.successes, 0) + 1
           total == Plus(OrElse(stats.total, 0), latency)
       IN  [stats EXCEPT
              !.count = OrElse(stats.count, 0) + 1,
              !.successes = successes,
              !.current = latency,
              !.total = total,
              !.avg = IF successes > 0 THEN RoundDiv(total, successes) ELSE @,
              !.min = Min2(OrElse(stats.min, Infinity), latency),
              !.max = Max2(OrElse(stats.max, 0), latency),
              !.history = PushHistory(stats.history,
                            [timestamp |-> timestamp, latency |-> latency])]
  ELSE [stats EXCEPT
          !.failures = OrElse(stats.failures, 0) + 1,
          !.current = Null]

updateStats(stats, latency, success, timestamp) ==
  LET count == OrElse(stats.count, 0) + 1
  IN  IF success /\ latency # Null /\ latency # NaN
      THEN LET successes == OrElse(stats.successes, 0) + 1
               total == Plus(OrElse(stats.total, 0), latency)
           IN  [stats EXCEPT
                  !.count = count,
                  !.successes = successes,
                  !.current = latency,
                  !.total = total,
                  !.avg = IF successes > 0 THEN RoundDiv(total, successes) ELSE @,
                  !.min = Min2(OrElse(stats.min, Infinity), latency),
                  !.max = Max2(OrElse(stats.max, 0), latency),
                  !.history = PushHistory(stats.history,
                                [timestamp |-> timestamp, latency |-> latency])]
      ELSE [stats EXCEPT
              !.count = count,
              !.failures = OrElse(stats.failures, 0) + 1,
              !.current = Null]

----------------------------------------------------------------------------
(* pingTest, simpleRequest, fullRequest *)

\* The result of pingTest(provider) once its fetch has settled with outcome;
\* abortController is whether the browser has AbortController.  Without an
\* endpoint or a ping path no request is made; without AbortController the
\* fetch has no timeout and its rejection reaches the outer catch.
MakesNoRequest(provider) == provider.endpoint = "" \/ provider.pingPath = ""

pingTest(provider, abortController, outcome) ==
  IF MakesNoRequest(provider)
  THEN FALSE
  ELSE IF ~abortController
  THEN outcome = "resolved"
  ELSE outcome # "aborted"

simpleRequest(provider, abortController, outcome) ==
  pingTest(provider, abortController, outcome)

\* fullRequest as an authenticated request of its own: without credentials the
\* server refuses it
fullRequest_NeedsCredentials(provider, abortController, outcome) == FALSE

fullRequest(provider, abortController, outcome) ==
  pingTest(provider, abortController, outcome)

\* the strategy testProvider picks from this.testMode, at dispatch
StrategyOf(mode) ==
  IF mode = "ping" THEN "pingTest"
  ELSE IF mode = "simple" THEN "simpleRequest"
  ELSE "fullRequest"

StrategyResult(strategy, provider, abortController, outcome) ==
  IF strategy = "pingTest" THEN pingTest(provider, abortController, outcome)
  ELSE IF strategy = "simpleRequest"
  THEN simpleRequest(provider, abortController, outcome)
  ELSE fullRequest(provider, abortController, outcome)

----------------------------------------------------------------------------
(* testProvider *)

\* An in-flight probe: the call testProvider(providers[provider]) made by
\* round, suspended at the await of its strategy
Probe(round, i, mode) ==
  [round |-> round, provider |-> i, strategy |-> StrategyOf(mode)]

\* testProviderDispatch that skips a provider whose earlier probe is still in
\* flight: the call returns at once
testProviderDispatch_SkipsBusy(s, i, round, listener, mode) ==
  IF \E probe \in s.inflight : probe.provider = i
  THEN [s EXCEPT !.promises = Append(s.promises, "fulfilled")]
  ELSE LET testing == [s.providers EXCEPT ![i].status = "testing"]
           n == notifyUpdate(s.delivered, listener, "testing", testing[i], round)
       IN  [providers |-> testing, delivered |-> n.log,
            inflight |-> s.inflight \cup {Probe(round, i, mode)},
            promises |-> Append(s.promises, "pending")]

\* The part of testProvider(providers[i]) that runs at the call, up to the
\* await of the probe.  s = [providers, delivered, inflight, promises] is the
\* state the call works on; promises is the array runTests is building.
testProviderDispatch(s, i, round, listener, mode) ==
  LET testing == [s.providers EXCEPT ![i].status = "testing"]
      n == notifyUpdate(s.delivered, listener, "testing", testing[i], round)
  IN  IF n.raised
      THEN \* the async function rejects; the .catch of runTests handles it
           [providers |-> testing, delivered |-> n.log, inflight |-> s.inflight,
            promises |-> Append(s.promises, "caught")]
      ELSE [providers |-> testing, delivered |-> n.log,
            inflight |-> s.inflight \cup
               {Probe(round, i, mode)},
            promises |-> Append(s.promises, "pending")]

\* latency < 0 or NaN: 'Invalid latency measurement'
InvalidLatency(latency) == latency = NaN \/ latency < 0

\* testProviderOutcome with the status assignment of the failure branches
\* forgotten
testProviderOutcome_StatusNotReset(provider, success, latency, timestamp) ==
  IF ~InvalidLatency(latency) /\ success
  THEN [provider EXCEPT
          !.stats = updateStats(provider.stats, latency, TRUE, timestamp),
          !.status = "online"]
  ELSE [provider EXCEPT
          !.stats = updateStats(provider.stats, Null, FALSE, timestamp)]

\* testProviderOutcome whose failure branches zero the aggregates of the
\* successful probes
testProviderOutcome_FailureResetsAggregates(provider, success, latency, timestamp) ==
  IF ~InvalidLatency(latency) /\ success
  THEN [provider EXCEPT
          !.stats = updateStats(provider.stats, latency, TRUE, timestamp),
          !.status = "online"]
  ELSE [provider EXCEPT
          !.stats = [updateStats(provider.stats, Null, FALSE, timestamp)
                       EXCEPT !.avg = 0, !.total = 0],
          !.status = "offline"]

\* testProviderOutcome whose failure branches leave stats.current as it was
testProviderOutcome_FailureKeepsCurrent(provider, success, latency, timestamp) ==
  IF ~InvalidLatency(latency) /\ success
  THEN [provider EXCEPT
          !.stats = updateStats(provider.stats, latency, TRUE, timestamp),
          !.status = "online"]
  ELSE [provider EXCEPT
          !.stats = [updateStats(provider.stats, Null, FALSE, timestamp)
                       EXCEPT !.current = provider.stats.current],
          !.status = "offline"]

\* The provider after the try/catch of testProvider: updateStats and the
\* status assignment
testProviderOutcome(provider, success, latency, timestamp) ==
  IF InvalidLatency(latency)
  THEN \* thrown, caught
       [provider EXCEPT
          !.stats = updateStats(provider.stats, Null, FALSE, timestamp),
          !.status = "offline"]
  ELSE IF success
  THEN [provider EXCEPT
          !.stats = updateStats(provider.stats, latency, TRUE, timestamp),
          !.status = "online"]
  ELSE [provider EXCEPT
          !.stats = updateStats(provider.stats, Null, FALSE, timestamp),
          !.status = "offline"]

\* testProviderResume with one stats object shared by all providers: the
\* result is recorded in every provider's stats
testProviderResume_SharedStats(ps, i, round, success, latency, timestamp, listener) ==
  LET settled == [j \in DOMAIN ps |->
                    IF j = i
                    THEN testProviderOutcome(ps[j], success, latency, timestamp)
                    ELSE [ps[j] EXCEPT !.stats =
                            testProviderOutcome(ps[j], success, latency, timestamp).stats]]
      n == notifyUpdate(<< >>, listener, "complete", settled[i], round)
  IN  [providers |-> settled, delivered |-> n.log,
       promise |-> IF n.raised THEN "caught" ELSE "fulfilled"]

\* testProviderResume with 'complete' notified before the result is recorded
testProviderResume_NotifiesFirst(ps, i, round, success, latency, timestamp, listener) ==
  LET n == notifyUpdate(<< >>, listener, "complete", ps[i], round)
      settled == [ps EXCEPT
                    ![i] = testProviderOutcome(ps[i], success, latency, timestamp)]
  IN  [providers |-> settled, delivered |-> n.log,
       promise |-> IF n.raised THEN "caught" ELSE "fulfilled"]

\* testProviderResume without the catch of testProvider: a failed probe
\* records nothing, notifies nothing and rejects the promise of the call
testProviderResume_RethrowsFailure(ps, i, round, success, latency, timestamp, listener) ==
  IF success /\ ~InvalidLatency(latency)
  THEN LET settled == [ps EXCEPT
                         ![i] = testProviderOutcome(ps[i], success, latency, timestamp)]
           n == notifyUpdate(<< >>, listener, "complete", settled[i], round)
       IN  [providers |-> settled, delivered |-> n.log,
            promise |-> IF n.raised THEN "caught" ELSE "fulfilled"]
  ELSE [providers |-> ps, delivered |-> << >>, promise |-> "caught"]

\* The rest of testProvider(providers[i]) once its strategy has returned
\* success: the result is recorded in providers[i], then 'complete' is
\* notified.  Result: the providers, the events handed out, and how the
\* promise of the call settles.
testProviderResume(ps, i, round, success, latency, timestamp, listener) ==
  LET settled == [ps EXCEPT
                    ![i] = testProviderOutcome(ps[i], success, latency, timestamp)]
      n == notifyUpdate(<< >>, listener, "complete", settled[i], round)
  IN  [providers |-> settled, delivered |-> n.log,
       promise |-> IF n.raised THEN "caught" ELSE "fulfilled"]

----------------------------------------------------------------------------
(* runTests *)

\* a join that resolves with the first promise to settle (Promise.race)
AllSettled_Race(promises) ==
  promises = << >> \/ \E i \in DOMAIN promises : promises[i] # "pending"

\* Promise.allSettled(promises) has resolved
AllSettled(promises) == \A i \in DOMAIN promises : promises[i] # "pending"

\* a round whose await has resolved and whose continuation has not run yet
Joinable(r) == AllSettled(rounds[r].promises)

\* no continuation of runTests is waiting in the microtask queue
MicrotasksEmpty == \A r \in DOMAIN rounds : ~Joinable(r)

\* the bounds leave room for one more round
CanLaunch ==
  /\ launched < MaxRounds
  /\ (launched + 1) * Len(providers) <= MaxProbes

RECURSIVE DispatchFrom(_, _, _, _, _)
\* providers.map(provider => this.testProvider(provider).catch(...)), from
\* index i on, in registry order
DispatchFrom(s, i, round, listener, mode) ==
  IF i > Len(s.providers)
  THEN s
  ELSE DispatchFrom(testProviderDispatch(s, i, round, listener, mode),
                    i + 1, round, listener, mode)

\* runTests up to its await: every provider's probe is dispatched.  mode is
\* this.testMode at the call
runTests(trigger, mode) ==
  LET round == launched + 1
      s == DispatchFrom([providers |-> providers, delivered |-> << >>,
                         inflight |-> inflight, promises |-> << >>],
                        1, round, onUpdate, mode)
  IN  /\ providers' = s.providers
      /\ delivered' = s.delivered
      /\ inflight' = s.inflight
      /\ launched' = round
      /\ rounds' = (round :> [trigger |-> trigger, promises |-> s.promises]) @@ rounds

\* runTestsResume counting one test per provider instead of one per round
runTestsResume_CountsProbes(r) ==
  /\ r \in DOMAIN rounds
  /\ Joinable(r)
  /\ totalTests' = totalTests + Len(providers)
  /\ rounds' = [q \in DOMAIN rounds \ {r} |-> rounds[q]]
  /\ delivered' = << >>
  /\ lastCall' = "runTestsResume"
  /\ UNCHANGED <<providers, isMonitoring, monitoringInterval, testMode,
                 onUpdate, timers, nextTimerId, launched, inflight, now,
                 hasAbortController, rendered>>

\* runTests after its await: this.totalTests++, and the call returns
runTestsResume(r) ==
  /\ r \in DOMAIN rounds
  /\ Joinable(r)
  /\ totalTests' = totalTests + 1
  /\ rounds' = [q \in DOMAIN rounds \ {r} |-> rounds[q]]
  /\ delivered' = << >>
  /\ lastCall' = "runTestsResume"
  /\ UNCHANGED <<providers, isMonitoring, monitoringInterval, testMode,
                 onUpdate, timers, nextTimerId, launched, inflight, now,
                 hasAbortController, rendered>>

----------------------------------------------------------------------------
(* start, stop *)

\* start without its guard
startGuard_Missing == FALSE

\* if (this.isMonitoring) return;
startGuard == isMonitoring

\* the sentinel is not recognised: a timer is armed whatever the interval
ArmsTimer_SentinelIgnored(intervalMs) == TRUE

\* the interval is not 'manual' and parses to a positive number
ArmsTimer(intervalMs) ==
  /\ intervalMs # Manual
  /\ ~(parseInt(intervalMs) = NaN \/ parseInt(intervalMs) <= 0)

\* setInterval(callback, period): the table of armed timers afterwards
setInterval(table, handle, period) == table \cup {[id |-> handle, period |-> period]}

\* stop forgetting to cancel the timer
clearInterval_Forgotten(table, handle) == table

\* clearInterval(handle)
clearInterval(table, handle) == { t \in table : t.id # handle }

\* the interval is not 'manual' and is no period: 'Invalid interval value'
InvalidInterval(intervalMs) == intervalMs # Manual /\ ~ArmsTimer(intervalMs)

\* start that checks the interval first and does nothing when it is invalid
start_RejectsInvalidInterval(intervalMs, mode) ==
  /\ MicrotasksEmpty
  /\ lastCall' = IF ~startGuard /\ InvalidInterval(intervalMs)
                 THEN "startInvalid" ELSE "start"
  /\ UNCHANGED <<hasAbortController, rendered>>
  /\ IF startGuard \/ InvalidInterval(intervalMs)
     THEN /\ delivered' = << >>
          /\ UNCHANGED <<providers, isMonitoring, monitoringInterval, testMode,
                         totalTests, onUpdate, timers, nextTimerId, launched,
                         rounds, inflight, now>>
     ELSE /\ CanLaunch
          /\ isMonitoring' = TRUE
          /\ testMode' = mode
          /\ runTests("start", mode)
          /\ IF ArmsTimer(intervalMs)
             THEN /\ monitoringInterval' = nextTimerId
                  /\ timers' = setInterval(timers, nextTimerId, parseInt(intervalMs))
                  /\ nextTimerId' = nextTimerId + 1
             ELSE UNCHANGED <<monitoringInterval, timers, nextTimerId>>
          /\ UNCHANGED <<totalTests, onUpdate, now>>

\* lastCall tells a start that runs with an invalid interval from the others
start(intervalMs, mode) ==
  /\ MicrotasksEmpty
  /\ lastCall' = IF ~startGuard /\ InvalidInterval(intervalMs)
                 THEN "startInvalid" ELSE "start"
  /\ UNCHANGED <<hasAbortController, rendered>>
  /\ IF startGuard
     THEN /\ delivered' = << >>
          /\ UNCHANGED <<providers, isMonitoring, monitoringInterval, testMode,
                         totalTests, onUpdate, timers, nextTimerId, launched,
                         rounds, inflight, now>>
     ELSE /\ CanLaunch
          /\ isMonitoring' = TRUE
          /\ testMode' = mode
          /\ runTests("start", mode)
          /\ IF ArmsTimer(intervalMs)
             THEN /\ monitoringInterval' = nextTimerId
                  /\ timers' = setInterval(timers, nextTimerId, parseInt(intervalMs))
                  /\ nextTimerId' = nextTimerId + 1
             ELSE UNCHANGED <<monitoringInterval, timers, nextTimerId>>
          /\ UNCHANGED <<totalTests, onUpdate, now>>

\* stop that also drops the probes in flight and their rounds
stop_DropsInflight ==
  /\ MicrotasksEmpty
  /\ lastCall' = "stop"
  /\ isMonitoring' = FALSE
  /\ IF monitoringInterval # Null /\ monitoringInterval # 0
     THEN /\ timers' = clearInterval(timers, monitoringInterval)
          /\ monitoringInterval' = Null
     ELSE UNCHANGED <<timers, monitoringInterval>>
  /\ delivered' = << >>
  /\ inflight' = {}
  /\ rounds' = << >>
  /\ UNCHANGED <<providers, testMode, totalTests, onUpdate, nextTimerId,
                 launched, now, hasAbortController, rendered>>

\* stop that clears the running flag and leaves the timer armed
stop_LeavesTimer ==
  /\ MicrotasksEmpty
  /\ lastCall' = "stop"
  /\ isMonitoring' = FALSE
  /\ delivered' = << >>
  /\ UNCHANGED <<providers, monitoringInterval, testMode, totalTests, onUpdate,
                 timers, nextTimerId, launched, rounds, inflight, now,
                 hasAbortController, rendered>>

\* stop that also resets the round counter
stop_ResetsTotalTests ==
  /\ MicrotasksEmpty
  /\ lastCall' = "stop"
  /\ isMonitoring' = FALSE
  /\ IF monitoringInterval # Null /\ monitoringInterval # 0
     THEN /\ timers' = clearInterval(timers, monitoringInterval)
          /\ monitoringInterval' = Null
     ELSE UNCHANGED <<timers, monitoringInterval>>
  /\ delivered' = << >>
  /\ totalTests' = 0
  /\ UNCHANGED <<providers, testMode, onUpdate, nextTimerId,
                 launched, rounds, inflight, now, hasAbortController, rendered>>

stop ==
  /\ MicrotasksEmpty
  /\ lastCall' = "stop"
  /\ isMonitoring' = FALSE
  /\ IF monitoringInterval # Null /\ monitoringInterval # 0
     THEN /\ timers' = clearInterval(timers, monitoringInterval)
          /\ monitoringInterval' = Null
     ELSE UNCHANGED <<timers, monitoringInterval>>
  /\ delivered' = << >>
  /\ UNCHANGED <<providers, testMode, totalTests, onUpdate, nextTimerId,
                 launched, rounds, inflight, now, hasAbortController, rendered>>

\* the repeating timer t fires: its callback calls runTests
TimerTick(t) ==
  /\ MicrotasksEmpty
  /\ t \in timers
  /\ CanLaunch
  /\ lastCall' = "tick"
  /\ runTests("timer", testMode)
  /\ UNCHANGED <<isMonitoring, monitoringInterval, testMode, totalTests,
                 onUpdate, timers, nextTimerId, now, hasAbortController, rendered>>

\* a caller triggers one round by hand
ManualRound ==
  /\ MicrotasksEmpty
  /\ CanLaunch
  /\ lastCall' = "runTests"
  /\ runTests("manual", testMode)
  /\ UNCHANGED <<isMonitoring, monitoringInterval, testMode, totalTests,
                 onUpdate, timers, nextTimerId, now, hasAbortController, rendered>>

----------------------------------------------------------------------------
(* The listener the App registers: (event, provider) =>                     *)
(* this.handleMonitorUpdate(event, provider)                                *)

AppListener == "handleMonitorUpdate"

\* App.updateDisplay: the round counter the page shows afterwards, total
\* being this.monitor.totalTests at the call
updateDisplay(total) == OrElse(total, 0)

\* What the page shows after the listener was handed event: the App's
\* listener refreshes the display on 'complete', other listeners do not
\* write to the page.  shown is what the page showed before.
handleMonitorUpdate(shown, listener, event, total) ==
  IF listener = AppListener /\ event = "complete"
  THEN updateDisplay(total)
  ELSE shown

----------------------------------------------------------------------------
(* a probe settles *)

\* The fetch of the in-flight probe settles with outcome; its strategy
\* returns, and testProvider measures latency, records the result and
\* notifies 'complete'.  Only the timeout aborts a fetch, and the timeout
\* needs AbortController.
ProbeSettle(probe, outcome, latency) ==
  /\ MicrotasksEmpty
  /\ probe \in inflight
  /\ outcome = "aborted" => hasAbortController
  /\ outcome = NoFetch <=> MakesNoRequest(providers[probe.provider])
  /\ LET s == testProviderResume(providers, probe.provider, probe.round,
                                 StrategyResult(probe.strategy,
                                                providers[probe.provider],
                                                hasAbortController, outcome),
                                 latency, now, onUpdate)
     IN  /\ providers' = s.providers
         /\ delivered' = s.delivered
         /\ rounds' = [rounds EXCEPT ![probe.round].promises[probe.provider] = s.promise]
  /\ inflight' = inflight \ {probe}
  /\ now' = now + 1
  /\ lastCall' = outcome
  /\ rendered' = handleMonitorUpdate(rendered, onUpdate, "complete", totalTests)
  /\ UNCHANGED <<isMonitoring, monitoringInterval, testMode, totalTests,
                 onUpdate, timers, nextTimerId, launched, hasAbortController>>

----------------------------------------------------------------------------
(* clearStats, setUpdateCallback *)

\* clearStats that forgets the round counter
clearStats_KeepsTotalTests ==
  /\ MicrotasksEmpty
  /\ providers' = [i \in DOMAIN providers |->
                     [providers[i] EXCEPT !.stats = InitialStats, !.status = "idle"]]
  /\ lastCall' = "clearStats"
  /\ delivered' = << >>
  /\ UNCHANGED <<isMonitoring, monitoringInterval, testMode, totalTests, onUpdate,
                 timers, nextTimerId, launched, rounds, inflight, now,
                 hasAbortController, rendered>>

\* clearStats that also stops the monitor, as stop does
clearStats_StopsMonitoring ==
  /\ MicrotasksEmpty
  /\ providers' = [i \in DOMAIN providers |->
                     [providers[i] EXCEPT !.stats = InitialStats, !.status = "idle"]]
  /\ totalTests' = 0
  /\ lastCall' = "clearStats"
  /\ delivered' = << >>
  /\ isMonitoring' = FALSE
  /\ timers' = {}
  /\ monitoringInterval' = Null
  /\ UNCHANGED <<testMode, onUpdate, nextTimerId, launched, rounds, inflight,
                 now, hasAbortController, rendered>>

\* clearStats that also discards the probes in flight and their rounds
clearStats_DiscardsInflight ==
  /\ MicrotasksEmpty
  /\ providers' = [i \in DOMAIN providers |->
                     [providers[i] EXCEPT !.stats = InitialStats, !.status = "idle"]]
  /\ totalTests' = 0
  /\ lastCall' = "clearStats"
  /\ delivered' = << >>
  /\ inflight' = {}
  /\ rounds' = << >>
  /\ UNCHANGED <<isMonitoring, monitoringInterval, testMode, onUpdate, timers,
                 nextTimerId, launched, now, hasAbortController, rendered>>

\* clearStats that resets the stats and leaves every status as it is
clearStats_KeepsStatus ==
  /\ MicrotasksEmpty
  /\ providers' = [i \in DOMAIN providers |->
                     [providers[i] EXCEPT !.stats = InitialStats]]
  /\ totalTests' = 0
  /\ lastCall' = "clearStats"
  /\ delivered' = << >>
  /\ UNCHANGED <<isMonitoring, monitoringInterval, testMode, onUpdate, timers,
                 nextTimerId, launched, rounds, inflight, now, hasAbortController,
                 rendered>>

clearStats ==
  /\ MicrotasksEmpty
  /\ providers' = [i \in DOMAIN providers |->
                     [providers[i] EXCEPT !.stats = InitialStats, !.status = "idle"]]
  /\ totalTests' = 0
  /\ lastCall' = "clearStats"
  /\ delivered' = << >>
  /\ UNCHANGED <<isMonitoring, monitoringInterval, testMode, onUpdate, timers,
                 nextTimerId, launched, rounds, inflight, now, hasAbortController,
                 rendered>>

\* the call replaces a registered listener by another one
ReplacesListener(callback) ==
  callback \in Listeners /\ onUpdate \in Listeners /\ callback # onUpdate

\* setUpdateCallback that keeps the listener registered first
setUpdateCallback_FirstWins(callback) ==
  /\ MicrotasksEmpty
  /\ onUpdate' = IF callback \in Listeners /\ onUpdate = Undefined
                 THEN callback ELSE onUpdate
  /\ lastCall' = IF ReplacesListener(callback)
                 THEN "replaceListener" ELSE "setUpdateCallback"
  /\ delivered' = << >>
  /\ UNCHANGED <<providers, isMonitoring, monitoringInterval, testMode,
                 totalTests, timers, nextTimerId, launched, rounds, inflight, now,
                 hasAbortController, rendered>>

\* lastCall tells a call that replaces a listener from the other calls
setUpdateCallback(callback) ==
  /\ MicrotasksEmpty
  /\ onUpdate' = IF callback \in Listeners THEN callback ELSE onUpdate
  /\ lastCall' = IF ReplacesListener(callback)
                 THEN "replaceListener" ELSE "setUpdateCallback"
  /\ delivered' = << >>
  /\ UNCHANGED <<providers, isMonitoring, monitoringInterval, testMode,
                 totalTests, timers, nextTimerId, launched, rounds, inflight, now,
                 hasAbortController, rendered>>

----------------------------------------------------------------------------
(* getFastestProvider, getAverageLatency: reads of this.providers.  A         *)
(* provider object is referred to by its index in this.providers.            *)

\* typeof p.stats.current === 'number' && p.stats.current !== null
HasCurrent(provider) == provider.stats.current # Null

\* this.providers.filter(...): the providers with a current latency, in order
OnlineProviders(ps) ==
  SelectSeq([i \in DOMAIN ps |-> i], LAMBDA i : HasCurrent(ps[i]))

\* the comparison with <= : of two equal providers the later one wins
Faster_OrEqual(ps, current, fastest) ==
  ps[current].stats.current <= ps[fastest].stats.current

\* current.stats.current < fastest.stats.current
Faster(ps, current, fastest) ==
  ps[current].stats.current < ps[fastest].stats.current

RECURSIVE ReduceFastest(_, _, _, _)
\* online.reduce(...) without initial value, from index i on
ReduceFastest(ps, online, i, fastest) ==
  IF i > Len(online)
  THEN fastest
  ELSE ReduceFastest(ps, online, i + 1,
                     IF Faster(ps, online[i], fastest) THEN online[i] ELSE fastest)

getFastestProvider(ps) ==
  LET online == OnlineProviders(ps)
  IN  IF Len(online) = 0 THEN Null ELSE ReduceFastest(ps, online, 2, online[1])

RECURSIVE SumCurrent(_, _, _)
\* online.reduce((sum, p) => sum + p.stats.current, 0), from index i on
SumCurrent(ps, online, i) ==
  IF i > Len(online) THEN 0
  ELSE ps[online[i]].stats.current + SumCurrent(ps, online, i + 1)

\* the mean taken over all the providers, with or without a current latency
getAverageLatency_DividesByAll(ps) ==
  LET online == OnlineProviders(ps)
  IN  IF Len(online) = 0 THEN Null
      ELSE RoundDiv(SumCurrent(ps, online, 1), Len(ps))

getAverageLatency(ps) ==
  LET online == OnlineProviders(ps)
  IN  IF Len(online) = 0 THEN Null
      ELSE RoundDiv(SumCurrent(ps, online, 1), Len(online))

----------------------------------------------------------------------------

Next ==
  \/ \E intervalMs \in Intervals, mode \in Modes : start(intervalMs, mode)
  \/ stop
  \/ \E t \in timers : TimerTick(t)
  \/ ManualRound
  \/ \E probe \in inflight, outcome \in FetchOutcomes, latency \in Latencies :
        ProbeSettle(probe, outcome, latency)
  \/ \E r \in DOMAIN rounds : runTestsResume(r)
  \/ clearStats
  \/ \E callback \in Listeners \cup {NotAFunction} : setUpdateCallback(callback)

Spec == Init /\ [][Next]_vars

----------------------------------------------------------------------------
(* One provider probed in every mode and in every browser: Spec runs in the  *)
(* browsers the README lists, which all have AbortController; pingTest also  *)
(* runs, without a timeout, in a browser that lacks it.                      *)

\* the values start may be given as mode: those of the UI and any other
AnyModes == Modes \cup {"other"}

ProbeInit ==
  /\ providers = Construct(SubSeq(API_PROVIDERS, 1, 1))
  /\ isMonitoring = FALSE
  /\ monitoringInterval = Null
  /\ testMode = "ping"
  /\ totalTests = 0
  /\ onUpdate = Undefined
  /\ timers = {}
  /\ nextTimerId = 1
  /\ launched = 0
  /\ rounds = << >>
  /\ inflight = {}
  /\ delivered = << >>
  /\ now = 0
  /\ lastCall = "constructor"
  /\ hasAbortController \in BOOLEAN
  /\ rendered = 0

ProbeNext ==
  \/ \E mode \in AnyModes : start(Manual, mode)
  \/ stop
  \/ ManualRound
  \/ \E probe \in inflight, outcome \in FetchOutcomes, latency \in Latencies :
        ProbeSettle(probe, outcome, latency)
  \/ \E r \in DOMAIN rounds : runTestsResume(r)

ProbeSpec == ProbeInit /\ [][ProbeNext]_vars

----------------------------------------------------------------------------
(* The monitor constructed from registries with a null entry or with a      *)
(* record that lacks a required field (a falsy value is the empty string).  *)

MalformedRegistries ==
  { << API_PROVIDERS[1], NullEntry >>,
    << NullEntry, [API_PROVIDERS[2] EXCEPT !.endpoint = ""] >>,
    << API_PROVIDERS[1], [API_PROVIDERS[2] EXCEPT !.id = ""] >>,
    << [API_PROVIDERS[3] EXCEPT !.pingPath = ""] >>,
    << [API_PROVIDERS[4] EXCEPT !.name = "", !.color = ""] >> }

RegistryInit ==
  /\ providers \in { Construct(registry) : registry \in MalformedRegistries }
  /\ isMonitoring = FALSE
  /\ monitoringInterval = Null
  /\ testMode = "ping"
  /\ totalTests = 0
  /\ onUpdate = Undefined
  /\ timers = {}
  /\ nextTimerId = 1
  /\ launched = 0
  /\ rounds = << >>
  /\ inflight = {}
  /\ delivered = << >>
  /\ now = 0
  /\ lastCall = "constructor"
  /\ hasAbortController = TRUE
  /\ rendered = 0

RegistryNext ==
  \/ \E mode \in Modes : start(Manual, mode)
  \/ stop
  \/ \E probe \in inflight, outcome \in FetchOutcomes \cup {NoFetch},
          latency \in Latencies :
        ProbeSettle(probe, outcome, latency)
  \/ \E r \in DOMAIN rounds : runTestsResume(r)

RegistrySpec == RegistryInit /\ [][RegistryNext]_vars

----------------------------------------------------------------------------
(* The statistics of one provider as a function of the results of its       *)
(* probes: each step is one call of testProvider from its try to its catch, *)
(* with the result of the strategy and the measured latency as inputs.      *)

SampleSettle(success, latency) ==
  /\ providers' = [providers EXCEPT
                     ![1] = testProviderOutcome(providers[1], success, latency, now)]
  /\ now' = now + 1
  /\ lastCall' = IF success THEN "resolved" ELSE "aborted"
  /\ delivered' = << >>
  /\ UNCHANGED <<isMonitoring, monitoringInterval, testMode, totalTests,
                 onUpdate, timers, nextTimerId, launched, rounds, inflight,
                 hasAbortController, rendered>>

StatsInit == ProbeInit /\ hasAbortController

\* every sequence of at most MaxSamples results, with resets in between
StatsNext ==
  \/ \E success \in BOOLEAN, latency \in Latencies :
        now < MaxSamples /\ SampleSettle(success, latency)
  \/ clearStats

StatsSpec == StatsInit /\ [][StatsNext]_vars

\* the latency of the probe that settles at time k: 0, 1, .., MaxLatency, 0, ..
LatencyAt(k) == k % (MaxLatency + 1)

\* runs long enough to fill the history and overflow it
HistoryNext ==
  \E success \in BOOLEAN :
     /\ now < HistoryLimit + MaxOverflow
     /\ success \/ providers[1].stats.failures < MaxFailures
     /\ SampleSettle(success, LatencyAt(now))

HistorySpec == StatsInit /\ [][HistoryNext]_vars

----------------------------------------------------------------------------
(* getStats and a consumer that writes to the snapshot it was handed.  The  *)
(* snapshot's fields are values of its own, except stats.history: the       *)
(* spread copies the reference, so the snapshot holds the array object of   *)
(* the provider, named here by the provider's index.                        *)

\* x || d for strings
OrElseString(x, d) == IF x = "" THEN d ELSE x

getStats(ps) ==
  [i \in DOMAIN ps |->
     [id |-> OrElseString(ps[i].id, "unknown"),
      name |-> OrElseString(ps[i].name, "Unknown"),
      color |-> OrElseString(ps[i].color, "#000000"),
      status |-> OrElseString(ps[i].status, "idle"),
      stats |-> [ps[i].stats EXCEPT !.history = [array |-> i]]]]

\* what a consumer may do to entry i of a snapshot: assign its status, assign
\* a field of its stats, assign its stats.history, or pop the last element of
\* the array stats.history refers to
Mutations == {"setStatus", "setCount", "setHistory", "popHistory"}

\* the monitor's providers after the consumer's write: only a write to an
\* array object the monitor also holds reaches them
ConsumerWrite(ps, snapshot, i, mutation) ==
  IF mutation = "popHistory"
  THEN LET owner == snapshot[i].stats.history.array
           history == ps[owner].stats.history
       IN  [ps EXCEPT ![owner].stats.history =
                         IF history = << >> THEN history
                         ELSE SubSeq(history, 1, Len(history) - 1)]
  ELSE ps

\* a consumer calls getStats and mutates entry i of the snapshot
ConsumerMutates(i, mutation) ==
  /\ providers' = ConsumerWrite(providers, getStats(providers), i, mutation)
  /\ lastCall' = "consumer"
  /\ delivered' = << >>
  /\ UNCHANGED <<isMonitoring, monitoringInterval, testMode, totalTests,
                 onUpdate, timers, nextTimerId, launched, rounds, inflight, now,
                 hasAbortController, rendered>>

SnapshotNext ==
  \/ \E success \in BOOLEAN, latency \in Latencies :
        now < MaxSamples /\ SampleSettle(success, latency)
  \/ \E i \in DOMAIN providers, mutation \in Mutations :
        ConsumerMutates(i, mutation)

SnapshotSpec == StatsInit /\ [][SnapshotNext]_vars

----------------------------------------------------------------------------
(* One provider, monitored with the interval 'manual': start, and rounds    *)
(* triggered by hand, which may overlap.                                    *)

\* a manual trigger that does nothing while a round is still open
manualTrigger_Coalesced ==
  IF DOMAIN rounds # {}
  THEN /\ lastCall' = "runTests"
       /\ delivered' = << >>
       /\ UNCHANGED <<providers, isMonitoring, monitoringInterval, testMode,
                      totalTests, onUpdate, timers, nextTimerId, launched, rounds,
                      inflight, now, hasAbortController, rendered>>
  ELSE /\ lastCall' = "runTests"
       /\ runTests("manual", testMode)
       /\ UNCHANGED <<isMonitoring, monitoringInterval, testMode, totalTests,
                      onUpdate, timers, nextTimerId, now, hasAbortController, rendered>>

\* monitor.runTests() called by hand
manualTrigger ==
  /\ lastCall' = "runTests"
  /\ runTests("manual", testMode)
  /\ UNCHANGED <<isMonitoring, monitoringInterval, testMode, totalTests,
                 onUpdate, timers, nextTimerId, now, hasAbortController, rendered>>

ManualNext ==
  \/ \E mode \in Modes : start(Manual, mode)
  \/ MicrotasksEmpty /\ launched < MaxManualRounds /\ manualTrigger
  \/ \E probe \in inflight, outcome \in FetchOutcomes, latency \in Latencies :
        ProbeSettle(probe, outcome, latency)
  \/ \E r \in DOMAIN rounds : runTestsResume(r)

ManualSpec == StatsInit /\ [][ManualNext]_vars

----------------------------------------------------------------------------
(* App.createLatencyBadge: the badge shown next to a provider's current     *)
(* latency, given by its text; NoBadge is the null it returns for a value   *)
(* that is not a number.                                                    *)

NoBadge == "null"

createLatencyBadge(latency) ==
  IF latency = Null \/ latency = NaN THEN NoBadge
  ELSE IF latency < 200 THEN "Fast"
  ELSE IF latency < 500 THEN "Normal"
  ELSE "Slow"

\* latencies around the thresholds of the badge
BadgeLatencies == {0, 199, 200, 201, 499, 500, 501}

BadgeNext ==
  \E success \in BOOLEAN, latency \in BadgeLatencies :
     now < MaxBadgeSamples /\ SampleSettle(success, latency)

BadgeSpec == StatsInit /\ [][BadgeNext]_vars

----------------------------------------------------------------------------
(* The elapsed time testProvider measures, Math.round(endTime - startTime),  *)
(* when performance.now() returns values that are no timestamps: the         *)
(* difference is then negative, NaN, -Infinity or Infinity.                  *)

\* the measured values: the valid latencies, a negative one, and the values
\* that are not finite
Elapsed == Latencies \cup {-5, NaN, 0 - Infinity, Infinity}

\* what kind of value a measurement is
ElapsedKind(elapsed) ==
  IF elapsed = NaN THEN "NaN"
  ELSE IF elapsed = 0 - Infinity THEN "-Infinity"
  ELSE IF elapsed = Infinity THEN "Infinity"
  ELSE IF elapsed < 0 THEN "negative"
  ELSE "finite"

\* one call of testProvider from its try to its catch: the strategy returns
\* success and the elapsed time measured is elapsed.  lastCall tells the kind
\* of a measurement that is negative or not finite around a strategy that
\* reported success.
MeasuredSettle(success, elapsed) ==
  /\ providers' = [providers EXCEPT
                     ![1] = testProviderOutcome(providers[1], success, elapsed, now)]
  /\ now' = now + 1
  /\ lastCall' = IF ~success THEN "aborted"
                 ELSE IF ElapsedKind(elapsed) = "finite" THEN "resolved"
                 ELSE ElapsedKind(elapsed)
  /\ delivered' = << >>
  /\ UNCHANGED <<isMonitoring, monitoringInterval, testMode, totalTests,
                 onUpdate, timers, nextTimerId, launched, rounds, inflight,
                 hasAbortController, rendered>>

ElapsedNext ==
  \E success \in BOOLEAN, elapsed \in Elapsed :
     now < MaxSamples /\ MeasuredSettle(success, elapsed)

ElapsedSpec == StatsInit /\ [][ElapsedNext]_vars

----------------------------------------------------------------------------
(* The executions in which clearStats is never called *)

NoClearNext ==
  \/ \E intervalMs \in Intervals, mode \in Modes : start(intervalMs, mode)
  \/ stop
  \/ \E t \in timers : TimerTick(t)
  \/ ManualRound
  \/ \E probe \in inflight, outcome \in FetchOutcomes, latency \in Latencies :
        ProbeSettle(probe, outcome, latency)
  \/ \E r \in DOMAIN rounds : runTestsResume(r)
  \/ \E callback \in Listeners \cup {NotAFunction} : setUpdateCallback(callback)

NoClearSpec == Init /\ [][NoClearNext]_vars

----------------------------------------------------------------------------
(* Progress.  Every network request settles: it completes, rejects or is    *)
(* aborted by the timeout, so the settling of each probe in flight is       *)
(* weakly fair; the continuation of runTests is a microtask, which the      *)
(* event loop runs as soon as its await has resolved.  The monitor is the   *)
(* one the App has set up: a listener is registered before the first start, *)
(* here the one that throws on every event.  Progress does not depend on    *)
(* the mode or on the latency measured, which are fixed.                    *)

\* the probes a behaviour can dispatch
AllProbes ==
  { Probe(round, i, "ping") : round \in 1..MaxRounds, i \in 1..MaxProviders }

LiveInit ==
  /\ providers \in { Construct(reg) : reg \in Registries }
  /\ isMonitoring = FALSE
  /\ monitoringInterval = Null
  /\ testMode = "ping"
  /\ totalTests = 0
  /\ onUpdate = "g"
  /\ timers = {}
  /\ nextTimerId = 1
  /\ launched = 0
  /\ rounds = << >>
  /\ inflight = {}
  /\ delivered = << >>
  /\ now = 0
  /\ lastCall = "setUpdateCallback"
  /\ hasAbortController = TRUE
  /\ rendered = 0

LiveNext ==
  \/ \E intervalMs \in Intervals : start(intervalMs, "ping")
  \/ stop
  \/ \E t \in timers : TimerTick(t)
  \/ ManualRound
  \/ \E probe \in inflight, outcome \in FetchOutcomes :
        ProbeSettle(probe, outcome, 0)
  \/ \E r \in DOMAIN rounds : runTestsResume(r)
  \/ clearStats

Fairness ==
  /\ \A probe \in AllProbes :
        WF_vars(\E outcome \in FetchOutcomes : ProbeSettle(probe, outcome, 0))
  /\ \A r \in 1..MaxRounds : WF_vars(runTestsResume(r))

LiveSpec == LiveInit /\ [][LiveNext]_vars /\ Fairness

----------------------------------------------------------------------------
(* The App: it constructs the monitor, registers its listener and renders   *)
(* once; its buttons call start, stop and clearStats.                       *)

\* the intervals the page offers: manual and 5 seconds, the shortest
UiIntervals == { Manual, <<"5", "0", "0", "0">> }

\* new App(): the registry is API_PROVIDERS, of which the model takes the
\* first records, at least one
AppInit ==
  /\ providers \in { Construct(reg) : reg \in Registries \ {<< >>} }
  /\ isMonitoring = FALSE
  /\ monitoringInterval = Null
  /\ testMode = "ping"
  /\ totalTests = 0
  /\ onUpdate = AppListener
  /\ timers = {}
  /\ nextTimerId = 1
  /\ launched = 0
  /\ rounds = << >>
  /\ inflight = {}
  /\ delivered = << >>
  /\ now = 0
  /\ lastCall = "setUpdateCallback"
  /\ hasAbortController = TRUE
  /\ rendered = updateDisplay(0)

\* App.clearData, confirmed: this.monitor.clearStats(); this.updateDisplay()
clearData ==
  /\ MicrotasksEmpty
  /\ providers' = [i \in DOMAIN providers |->
                     [providers[i] EXCEPT !.stats = InitialStats, !.status = "idle"]]
  /\ totalTests' = 0
  /\ rendered' = updateDisplay(totalTests')
  /\ lastCall' = "clearData"
  /\ delivered' = << >>
  /\ UNCHANGED <<isMonitoring, monitoringInterval, testMode, onUpdate, timers,
                 nextTimerId, launched, rounds, inflight, now, hasAbortController>>

AppNext ==
  \/ \E intervalMs \in UiIntervals, mode \in Modes : start(intervalMs, mode)
  \/ stop
  \/ \E t \in timers : TimerTick(t)
  \/ \E probe \in inflight, outcome \in FetchOutcomes, latency \in Latencies :
        ProbeSettle(probe, outcome, latency)
  \/ \E r \in DOMAIN rounds : runTestsResume(r)
  \/ clearData

AppSpec == AppInit /\ [][AppNext]_vars

----------------------------------------------------------------------------
(* Properties of the scheduler: start, stop, rounds *)

\* the interval specifiers a caller is meant to pass: 'manual' or a positive
\* number of milliseconds
ValidIntervals == { i \in Intervals : i = Manual \/ parseInt(i) > 0 }

\* the program's variables: all but the records of what the last step did
ProgramVars == <<providers, isMonitoring, monitoringInterval, testMode,
                 totalTests, onUpdate, timers, nextTimerId, launched, rounds,
                 inflight, now, hasAbortController, rendered>>

\* C1: start(interval, mode) on a stopped monitor, with interval 'manual' or
\* a positive number, makes it running, records the mode, launches exactly
\* one round at once (every provider's probe dispatched in that same step),
\* and arms one repeating timer exactly when interval is not 'manual'.
C1_StartLaunchesRound ==
  [][\A i \in ValidIntervals, m \in Modes :
       (~isMonitoring /\ start(i, m)) =>
          /\ isMonitoring'
          /\ testMode' = m
          /\ launched' = launched + 1
          /\ DOMAIN rounds' = DOMAIN rounds \cup {launched'}
          /\ rounds'[launched'].trigger = "start"
          /\ \A p \in DOMAIN providers :
                /\ providers'[p].status = "testing"
                /\ \E probe \in inflight' \ inflight :
                      probe.round = launched' /\ probe.provider = p
          /\ Cardinality(inflight' \ inflight) = Len(providers)
          /\ IF i = Manual
             THEN timers' = timers /\ monitoringInterval' = monitoringInterval
             ELSE /\ Cardinality(timers' \ timers) = 1
                  /\ timers \subseteq timers'
                  /\ \A t \in timers' \ timers :
                        t.period = parseInt(i) /\ monitoringInterval' = t.id]_vars

\* a start on a stopped monitor has just armed a timer and dispatched the
\* probes of two providers, none of which has settled
C1_Witness ==
  /\ lastCall = "start"
  /\ isMonitoring /\ testMode = "full"
  /\ Len(providers) = 2
  /\ launched = 1 /\ DOMAIN rounds = {1}
  /\ rounds[1].trigger = "start"
  /\ Cardinality(inflight) = 2
  /\ Cardinality(timers) = 1

\* C2: start on a running monitor changes nothing (no round, no timer, the
\* mode kept), and at most one repeating timer is armed in every state.
C2_StartIdempotent ==
  /\ [](Cardinality(timers) <= 1)
  /\ [][\A i \in Intervals, m \in Modes :
          (isMonitoring /\ start(i, m)) => UNCHANGED ProgramVars]_vars

\* the last call was a start on a running monitor with its timer armed: the
\* only round launched so far has already completed
C2_Witness ==
  /\ lastCall = "start"
  /\ isMonitoring
  /\ Cardinality(timers) = 1
  /\ Len(providers) = 1
  /\ launched = 1 /\ DOMAIN rounds = {} /\ totalTests = 1

\* C3: stop on a running monitor cancels the armed timer and makes the
\* monitor stopped, and a timer-driven round is launched only while the
\* monitor is running: none between a stop and the next start.
C3_StopCancelsTimer ==
  /\ [][(isMonitoring /\ stop) =>
          (~isMonitoring' /\ timers' = {} /\ monitoringInterval' = Null)]_vars
  /\ [][(launched' = launched + 1 /\ rounds'[launched'].trigger = "timer")
          => isMonitoring]_vars

\* stop has just cancelled the timer that the only start had armed
C3_Witness ==
  /\ lastCall = "stop"
  /\ ~isMonitoring
  /\ nextTimerId = 2 /\ timers = {} /\ monitoringInterval = Null
  /\ launched = 1 /\ DOMAIN rounds = {1} /\ rounds[1].trigger = "start"

\* C4: stop leaves the probes in flight and their rounds alone; on a stopped
\* monitor each of them can still settle, and when it does its provider's
\* stats count one more probe, its status is online or offline, 'complete' is
\* delivered to the listener, and the completion of its round increments
\* totalTests.
C4_StopKeepsInflight ==
  /\ [][stop => (inflight' = inflight /\ rounds' = rounds
                   /\ providers' = providers /\ totalTests' = totalTests)]_vars
  /\ [](~isMonitoring /\ MicrotasksEmpty =>
          \A probe \in inflight : ENABLED ProbeSettle(probe, "resolved", 0))
  /\ [](~isMonitoring =>
          \A r \in DOMAIN rounds : Joinable(r) => ENABLED runTestsResume(r))
  /\ [][\A probe \in inflight :
          (~isMonitoring /\ probe \notin inflight') =>
             LET p == probe.provider
             IN  /\ providers'[p].stats.count = providers[p].stats.count + 1
                 /\ providers'[p].status \in {"online", "offline"}
                 /\ onUpdate # Undefined =>
                      /\ Len(delivered') = 1
                      /\ delivered'[1].event = "complete"
                      /\ delivered'[1].provider = providers[p].id]_vars
  /\ [][\A r \in DOMAIN rounds :
          (~isMonitoring /\ r \notin DOMAIN rounds') =>
             totalTests' = totalTests + 1]_vars

\* the round launched by the only start was in flight when stop was called,
\* and has now settled and been counted on the stopped monitor
C4_Witness ==
  /\ lastCall = "runTestsResume"
  /\ ~isMonitoring
  /\ nextTimerId = 2 /\ launched = 1
  /\ Len(providers) = 2
  /\ totalTests = 1
  /\ \A p \in DOMAIN providers :
        providers[p].stats.count = 1 /\ providers[p].status \in {"online", "offline"}

\* C5: the completion of a round increments totalTests by exactly one,
\* whatever the number of providers (zero included) and of failed probes, and
\* totalTests changes in no other way except that clearStats sets it to 0.
C5_RoundCountsOnce ==
  /\ [][\A r \in DOMAIN rounds :
          r \notin DOMAIN rounds' =>
             /\ totalTests' = totalTests + 1
             /\ DOMAIN rounds' = DOMAIN rounds \ {r}]_vars
  /\ [][totalTests' # totalTests =>
          \/ \E r \in DOMAIN rounds : r \notin DOMAIN rounds'
          \/ (clearStats /\ totalTests' = 0)]_vars

\* two rounds of a monitor without providers have completed and been counted
C5_Witness ==
  /\ Len(providers) = 0
  /\ launched = 2 /\ DOMAIN rounds = {}
  /\ totalTests = 2

\* C6: a round is counted only after every probe of it has settled: each
\* probe in flight belongs to a round that has not been counted, and its
\* promise in that round is still pending.
C6_CountedAfterAllSettled ==
  \A probe \in inflight :
     /\ probe.round \in DOMAIN rounds
     /\ rounds[probe.round].promises[probe.provider] = "pending"

\* a round of two providers has been counted after both probes settled
C6_Witness ==
  /\ lastCall = "runTestsResume"
  /\ Len(providers) = 2
  /\ launched = 1 /\ totalTests = 1
  /\ inflight = {}
  /\ \A p \in DOMAIN providers : providers[p].stats.count = 1

\* C7: failures are isolated.  A probe whose fetch is aborted by the timeout
\* gives its provider failures+1 and status offline, a probe that succeeds gives its
\* provider successes+1 and status online, and neither changes any other
\* provider; the promise of the call is fulfilled either way, so the round
\* completes, and its completion raises totalTests by exactly 1.
C7_FailureIsolated ==
  /\ [][\A probe \in inflight :
          probe \notin inflight' =>
             LET p == probe.provider
                 before == providers[p].stats
                 after == providers'[p].stats
             IN  /\ \A q \in DOMAIN providers \ {p} : providers'[q] = providers[q]
                 /\ rounds'[probe.round].promises[p] = "fulfilled"
                 /\ lastCall' \in FetchOutcomes
                 /\ IF lastCall' = "aborted"
                    THEN /\ after.failures = before.failures + 1
                         /\ after.successes = before.successes
                         /\ providers'[p].status = "offline"
                    ELSE /\ after.successes = before.successes + 1
                         /\ after.failures = before.failures
                         /\ providers'[p].status = "online"]_vars
  /\ [][\A r \in DOMAIN rounds :
          r \notin DOMAIN rounds' =>
             (totalTests' = totalTests + 1 /\ providers' = providers)]_vars

\* a round of two providers has completed in which the first probe timed out
\* and the second succeeded
C7_Witness ==
  /\ Len(providers) = 2
  /\ launched = 1 /\ DOMAIN rounds = {} /\ totalTests = 1
  /\ providers[1].stats.failures = 1 /\ providers[1].stats.successes = 0
  /\ providers[1].status = "offline"
  /\ providers[2].stats.successes = 1 /\ providers[2].stats.failures = 0
  /\ providers[2].status = "online"

\* C8: the dispatch of a round sets every provider's status to 'testing',
\* whatever it was, and leaves the stats alone; when a probe settles, its
\* provider's status becomes 'online' if the probe succeeded and 'offline' if
\* it failed, and the stats count exactly one more probe.
C8_ProbeStateMachine ==
  /\ [][launched' = launched + 1 =>
          \A p \in DOMAIN providers :
             /\ providers[p].status \in {"idle", "offline", "online", "testing"}
             /\ providers'[p].status = "testing"
             /\ providers'[p].stats = providers[p].stats]_vars
  /\ [][\A probe \in inflight :
          probe \notin inflight' =>
             LET p == probe.provider
                 before == providers[p].stats
                 after == providers'[p].stats
             IN  /\ providers'[p].status =
                      (IF lastCall' \in {"resolved", "rejected"}
                       THEN "online" ELSE "offline")
                 /\ after.count = before.count + 1
                 /\ after.successes + after.failures
                      = before.successes + before.failures + 1]_vars

\* a provider went idle -> testing -> online -> testing -> offline
C8_Witness ==
  /\ lastCall = "aborted"
  /\ Len(providers) = 1
  /\ launched = 2
  /\ providers[1].status = "offline"
  /\ providers[1].stats.count = 2
  /\ providers[1].stats.successes = 1
  /\ providers[1].stats.history # << >>
  /\ providers[1].stats.current = Null

\* C9: while a listener is registered, the dispatch of a round hands it
\* exactly one 'testing' event per provider, in registry order, and the
\* settling of a probe hands it exactly one 'complete' event for that
\* provider, whose status is then already online or offline and whose stats
\* already count that probe; no other step delivers an event, and a
\* registered listener is never unregistered, so the 'complete' of a probe
\* follows its 'testing'.
C9_TestingThenComplete ==
  /\ [][(launched' = launched + 1 /\ onUpdate # Undefined) =>
          /\ Len(delivered') = Len(providers)
          /\ \A p \in DOMAIN providers :
                delivered'[p] =
                  [to |-> onUpdate, event |-> "testing",
                   provider |-> providers[p].id, round |-> launched',
                   status |-> "testing", count |-> providers[p].stats.count]]_vars
  /\ [][\A probe \in inflight :
          (probe \notin inflight' /\ onUpdate # Undefined) =>
             LET p == probe.provider
             IN  /\ Len(delivered') = 1
                 /\ delivered'[1].to = onUpdate
                 /\ delivered'[1].event = "complete"
                 /\ delivered'[1].provider = providers[p].id
                 /\ delivered'[1].round = probe.round
                 /\ delivered'[1].status \in {"online", "offline"}
                 /\ delivered'[1].status = providers'[p].status
                 /\ delivered'[1].count = providers[p].stats.count + 1
                 /\ delivered'[1].count = providers'[p].stats.count]_vars
  /\ [][delivered' # << >> =>
          \/ launched' = launched + 1
          \/ \E probe \in inflight : inflight' = inflight \ {probe}]_vars
  /\ [][onUpdate # Undefined => onUpdate' # Undefined]_vars

\* listener f has just received the 'complete' of the second provider, whose
\* probe succeeded, after the first provider's
C9_Witness ==
  /\ lastCall = "resolved"
  /\ Len(providers) = 2
  /\ delivered = << [to |-> "f", event |-> "complete", provider |-> "anthropic",
                     round |-> 1, status |-> "online", count |-> 1] >>
  /\ providers[1].stats.count = 1

\* C10: what the listener throws never leaves notifyUpdate: no call of
\* testProvider is rejected, each one is either still in flight or has
\* recorded its outcome and fulfilled, and a provider shown as 'testing' has a
\* probe in flight that will record its result.
C10_ListenerFailureContained ==
  /\ \A r \in DOMAIN rounds, p \in DOMAIN providers :
        /\ rounds[r].promises[p] \in {"pending", "fulfilled"}
        /\ rounds[r].promises[p] = "pending" <=>
              \E probe \in inflight : probe.round = r /\ probe.provider = p
  /\ \A p \in DOMAIN providers :
        providers[p].status = "testing" =>
           \E probe \in inflight : probe.provider = p

\* the throwing listener g has just received the 'complete' of a probe, which
\* has recorded its success and fulfilled its promise
C10_Witness ==
  /\ lastCall = "rejected"
  /\ onUpdate = "g"
  /\ Len(providers) = 1
  /\ delivered = << [to |-> "g", event |-> "complete", provider |-> "openai",
                     round |-> 1, status |-> "online", count |-> 1] >>
  /\ providers[1].stats.successes = 1
  /\ rounds[1].promises[1] = "fulfilled"

----------------------------------------------------------------------------
(* Properties of the listener, the probe policy and the statistics *)

\* C11: at most one listener is registered at any time.  A call of
\* setUpdateCallback with a function other than the registered listener
\* replaces it, other values leave it, and every event a step emits (also
\* the 'complete' of a probe dispatched under the replaced listener) is handed
\* to the listener registered at that step and to no other.
C11_ListenerReplaced ==
  /\ [](onUpdate \in Listeners \cup {Undefined})
  /\ [][lastCall' = "replaceListener" =>
          (onUpdate' \in Listeners /\ onUpdate' # onUpdate)]_vars
  /\ [][lastCall' = "setUpdateCallback" =>
          (onUpdate' = onUpdate \/ onUpdate = Undefined)]_vars
  /\ [][\A i \in DOMAIN delivered' :
          delivered'[i].to = onUpdate /\ delivered'[i].to = onUpdate']_vars

\* listener g has just replaced listener f while the probe of the second
\* provider, dispatched before the replacement, is still in flight
C11_Witness ==
  /\ lastCall = "replaceListener"
  /\ onUpdate = "g"
  /\ Len(providers) = 2
  /\ providers[1].stats.count = 1
  /\ \E probe \in inflight : probe.provider = 2

\* C12: a probe is a failure if and only if its request was aborted by the
\* timeout; a request that completes and a request that rejects with any
\* other error both count as success.
C12_FailureIffTimeout ==
  [][\A probe \in inflight :
       probe \notin inflight' =>
          LET p == probe.provider
              failed == providers'[p].stats.failures = providers[p].stats.failures + 1
              succeeded == providers'[p].stats.successes = providers[p].stats.successes + 1
          IN  /\ failed <=> lastCall' = "aborted"
              /\ succeeded <=> lastCall' \in {"resolved", "rejected"}]_vars

C14_CountIsSuccessesPlusFailures ==
  \A p \in DOMAIN providers :
     providers[p].stats.count
        = providers[p].stats.successes + providers[p].stats.failures

\* a provider has recorded a failed probe and then a successful one
C14_Witness ==
  /\ Len(providers) = 1
  /\ providers[1].stats.failures = 1
  /\ providers[1].stats.successes = 1
  /\ providers[1].stats.count = 2
  /\ providers[1].status = "online"

\* C15: for every provider, the history never holds more than 100 entries.
C15_HistoryBounded ==
  \A p \in DOMAIN providers : Len(providers[p].stats.history) <= HistoryLimit

\* the provider has recorded more than 101 successes and its history holds 100
C15_Witness ==
  /\ providers[1].stats.successes > HistoryLimit + 1
  /\ Len(providers[1].stats.history) = HistoryLimit

\* C16: the history is a FIFO of the successful samples.  A successful probe
\* appends its sample at the end, evicting the oldest entry when 100 are
\* held; a failed probe leaves the history alone; the entries are in
\* chronological order; and after 101 successful probes with latencies
\* L1..L101 the history is exactly L2..L101, in that order.
C16_HistoryFifo ==
  /\ [][providers'[1].stats.successes = providers[1].stats.successes + 1 =>
          LET history == providers[1].stats.history
              sample == [timestamp |-> now, latency |-> LatencyAt(now)]
          IN  providers'[1].stats.history =
                 (IF Len(history) < HistoryLimit THEN history ELSE Tail(history))
                    \o << sample >>]_vars
  /\ [][providers'[1].stats.failures = providers[1].stats.failures + 1 =>
          providers'[1].stats.history = providers[1].stats.history]_vars
  /\ [](\A i \in 1..(Len(providers[1].stats.history) - 1) :
          providers[1].stats.history[i].timestamp
             < providers[1].stats.history[i + 1].timestamp)
  /\ [](providers[1].stats.successes = HistoryLimit + 1
           /\ providers[1].stats.failures = 0 =>
          providers[1].stats.history =
             [k \in 1..HistoryLimit |->
                [timestamp |-> k, latency |-> LatencyAt(k)]])

\* 101 probes have succeeded and none has failed: the first sample, taken at
\* time 0, has been evicted and the one taken at time 100 is the last entry
C16_Witness ==
  /\ providers[1].stats.successes = HistoryLimit + 1
  /\ providers[1].stats.failures = 0
  /\ providers[1].stats.history[1].timestamp = 1
  /\ providers[1].stats.history[HistoryLimit].timestamp = HistoryLimit

\* C17: after n >= 1 successful probes with latencies L1..Ln (0 included)
\* and no failed one, on a provider in its initial state, stats.min is the
\* minimum of L1..Ln (the history holds L1..Ln while n <= 100).
C17_MinIsMinimum ==
  LET stats == providers[1].stats
  IN  (stats.successes >= 1 /\ stats.failures = 0) =>
         /\ \E i \in DOMAIN stats.history : stats.history[i].latency = stats.min
         /\ \A i \in DOMAIN stats.history : stats.min <= stats.history[i].latency

\* C18: after n >= 1 successful probes with latencies L1..Ln, with failed
\* probes in between or not, on a provider in its initial state, stats.max
\* is the maximum of L1..Ln; a failed probe leaves max alone.
C18_MaxIsMaximum ==
  /\ [](LET stats == providers[1].stats
        IN  stats.successes >= 1 =>
               /\ \E i \in DOMAIN stats.history :
                     stats.history[i].latency = stats.max
               /\ \A i \in DOMAIN stats.history :
                     stats.max >= stats.history[i].latency)
  /\ [][providers'[1].stats.failures = providers[1].stats.failures + 1 =>
          providers'[1].stats.max = providers[1].stats.max]_vars

\* successes with latencies 1 and 0 and a failed probe: max is still 1
C18_Witness ==
  /\ providers[1].stats.successes = 2
  /\ providers[1].stats.failures = 1
  /\ providers[1].stats.history[2].latency = 0
  /\ providers[1].stats.max = 1

RECURSIVE SumOfLatencies(_)
\* the sum of the latencies of the samples of a history
SumOfLatencies(history) ==
  IF history = << >> THEN 0
  ELSE Head(history).latency + SumOfLatencies(Tail(history))

\* C19: once a probe has succeeded since the last reset, stats.total is the
\* sum of the latencies of the successful probes since that reset and
\* stats.avg is total / successes rounded to the nearest integer, halves up
\* (avg - 1/2 <= total / successes < avg + 1/2); a failed probe changes
\* neither.
C19_AverageIsRoundedMean ==
  /\ [](LET stats == providers[1].stats
        IN  stats.successes >= 1 =>
               /\ stats.total = SumOfLatencies(stats.history)
               /\ 2 * stats.successes * stats.avg <= 2 * stats.total + stats.successes
               /\ 2 * stats.total + stats.successes
                     < 2 * stats.successes * (stats.avg + 1))
  /\ [][providers'[1].stats.failures = providers[1].stats.failures + 1 =>
          /\ providers'[1].stats.avg = providers[1].stats.avg
          /\ providers'[1].stats.total = providers[1].stats.total]_vars

\* after a reset, successes with latencies 1 and 0 and then a failure: the
\* mean 1/2 is rounded up to 1
C19_Witness ==
  /\ now > 3
  /\ lastCall = "aborted"
  /\ providers[1].stats.successes = 2
  /\ providers[1].stats.failures = 1
  /\ providers[1].stats.total = 1
  /\ providers[1].stats.avg = 1

\* C20: when a probe settles, stats.current of its provider becomes the
\* latency measured for that probe (the latency of the sample it appends to
\* the history) if the probe succeeded, and null if it failed; current is
\* null while the provider has recorded no probe (at the start and after
\* clearStats), and only a settling probe or clearStats changes it.
C20_CurrentIsLastResult ==
  /\ [](\A p \in DOMAIN providers :
          providers[p].stats.count = 0 => providers[p].stats.current = Null)
  /\ [][\A probe \in inflight :
          probe \notin inflight' =>
             LET after == providers'[probe.provider].stats
             IN  IF lastCall' = "aborted"
                 THEN after.current = Null
                 ELSE /\ after.current \in Latencies
                      /\ after.history # << >>
                      /\ after.history[Len(after.history)]
                            = [timestamp |-> now, latency |-> after.current]]_vars
  /\ [][\A p \in DOMAIN providers :
          providers'[p].stats.current # providers[p].stats.current =>
             \/ \E probe \in inflight : probe.provider = p /\ probe \notin inflight'
             \/ lastCall' = "clearStats" /\ providers'[p].stats.current = Null]_vars

\* a probe has just succeeded with latency 1 on a provider whose previous
\* probe had failed
C20_Witness ==
  /\ lastCall \in {"resolved", "rejected"}
  /\ Len(providers) = 1
  /\ providers[1].stats.failures = 1
  /\ providers[1].stats.successes = 1
  /\ providers[1].stats.current = 1

----------------------------------------------------------------------------
(* Properties of clearStats, the read interface and the registry *)

\* C21: clearStats, called in any reachable state, leaves every provider
\* with exactly the initial stats (current null, min Infinity, max 0, avg 0,
\* total 0, count 0, successes 0, failures 0, history empty), which are the
\* stats the constructor gives, and status idle, and sets totalTests to 0.
C21_ClearStatsResets ==
  [][lastCall' = "clearStats" =>
       /\ totalTests' = 0
       /\ \A p \in DOMAIN providers' :
             /\ providers'[p].status = "idle"
             /\ providers'[p].stats =
                  [current |-> Null, min |-> Infinity, max |-> 0, avg |-> 0,
                   total |-> 0, count |-> 0, successes |-> 0, failures |-> 0,
                   history |-> << >>]
             /\ providers'[p] = Construct(SubSeq(API_PROVIDERS, 1, p))[p]]_vars

\* clearStats has just run after the two rounds of the only provider had
\* settled and been counted
C21_Witness ==
  /\ lastCall = "clearStats"
  /\ Len(providers) = 1
  /\ now = 2 /\ launched = 2 /\ DOMAIN rounds = {}
  /\ totalTests = 0
  /\ providers[1].stats.count = 0

\* C22: clearStats leaves alone every provider's id, name, color, endpoint
\* and ping path, the running flag, the armed timer, the test mode and the
\* registered listener (and the rounds and probes in flight): clearing while
\* running does not stop monitoring.
C22_ClearStatsFrame ==
  [][lastCall' = "clearStats" =>
       /\ DOMAIN providers' = DOMAIN providers
       /\ \A p \in DOMAIN providers :
             /\ providers'[p].id = providers[p].id
             /\ providers'[p].name = providers[p].name
             /\ providers'[p].color = providers[p].color
             /\ providers'[p].endpoint = providers[p].endpoint
             /\ providers'[p].pingPath = providers[p].pingPath
       /\ isMonitoring' = isMonitoring
       /\ timers' = timers /\ monitoringInterval' = monitoringInterval
       /\ testMode' = testMode
       /\ onUpdate' = onUpdate
       /\ rounds' = rounds /\ inflight' = inflight]_vars

\* clearStats has just run on a running monitor with its timer armed, a
\* listener registered, mode 'full' and a probe in flight
C22_Witness ==
  /\ lastCall = "clearStats"
  /\ isMonitoring
  /\ Cardinality(timers) = 1 /\ monitoringInterval # Null
  /\ testMode = "full"
  /\ onUpdate = "f"
  /\ inflight # {}

\* the providers that have a current latency
Present == { i \in DOMAIN providers : providers[i].stats.current # Null }

\* C23: getFastestProvider returns, among the providers whose current
\* latency is present, one with the lowest current; of several with the
\* lowest value, the first in registry order; and null when no provider has a
\* current latency.
C23_FastestProvider ==
  LET fastest == getFastestProvider(providers)
  IN  IF Present = {}
      THEN fastest = Null
      ELSE /\ fastest \in Present
           /\ \A j \in Present :
                 /\ providers[fastest].stats.current <= providers[j].stats.current
                 /\ providers[fastest].stats.current = providers[j].stats.current
                      => fastest <= j

\* the two providers share the lowest current latency, 1 ms
C23_Witness ==
  /\ Len(providers) = 2
  /\ providers[1].stats.current = 1
  /\ providers[2].stats.current = 1
  /\ getFastestProvider(providers) = 1

RECURSIVE SumOfCurrents(_)
\* the sum of the current latencies of the providers in S
SumOfCurrents(S) ==
  IF S = {} THEN 0
  ELSE LET i == CHOOSE i \in S : TRUE
       IN  providers[i].stats.current + SumOfCurrents(S \ {i})

\* three providers whose current latencies are 100, 200 and none
ExampleProviders ==
  [i \in 1..3 |->
     [Construct(SubSeq(API_PROVIDERS, 1, 3))[i] EXCEPT
        !.stats.current = <<100, 200, Null>>[i]]]

\* C24: getAverageLatency returns the mean of current over exactly the
\* providers whose current is present, rounded to the nearest integer
\* (mean - 1/2 < result <= mean + 1/2), and null when no provider has a
\* current latency; currents 100, 200 and none give 150.
C24_AverageLatency ==
  LET average == getAverageLatency(providers)
      n == Cardinality(Present)
      sum == SumOfCurrents(Present)
  IN  /\ IF Present = {}
         THEN average = Null
         ELSE /\ 2 * n * average <= 2 * sum + n
              /\ 2 * sum + n < 2 * n * (average + 1)
      /\ getAverageLatency(ExampleProviders) = 150

\* the first provider's last probe failed and the second's current latency
\* is 1 ms: the average is 1, over one provider
C24_Witness ==
  /\ Len(providers) = 2
  /\ providers[1].stats.current = Null /\ providers[1].stats.failures = 1
  /\ providers[2].stats.current = 1
  /\ getAverageLatency(providers) = 1

\* C25: getStats is copy-out: no mutation that a consumer performs on a
\* returned snapshot (its status, a field of its stats, or the contents of
\* its history) changes the monitor's own providers.
C25_SnapshotIsCopy ==
  [][lastCall' = "consumer" => providers' = providers]_vars

\* C26: start with the interval 'manual' launches exactly one round at once
\* and arms no timer; afterwards each manual trigger launches one round of
\* its own, which leaves the rounds still open alone, so once all rounds
\* have settled totalTests and every provider's count equal the number of
\* rounds launched: two manual triggers raise each by exactly two.
C26_ManualRounds ==
  /\ [](timers = {} /\ monitoringInterval = Null)
  /\ [][(lastCall' = "start" /\ ~isMonitoring) =>
          /\ isMonitoring'
          /\ launched' = launched + 1
          /\ rounds'[launched'].trigger = "start"
          /\ Cardinality(inflight' \ inflight) = Len(providers)]_vars
  /\ [][lastCall' = "runTests" =>
          /\ launched' = launched + 1
          /\ DOMAIN rounds' = DOMAIN rounds \cup {launched'}
          /\ \A r \in DOMAIN rounds : rounds'[r] = rounds[r]
          /\ inflight \subseteq inflight'
          /\ Cardinality(inflight' \ inflight) = Len(providers)
          /\ totalTests' = totalTests]_vars
  /\ [](DOMAIN rounds = {} =>
          /\ totalTests = launched
          /\ \A p \in DOMAIN providers : providers[p].stats.count = launched)

\* the round of a manual start and the rounds of two manual triggers have
\* all settled: three rounds counted, three probes of the provider recorded
C26_Witness ==
  /\ isMonitoring
  /\ launched = 3 /\ DOMAIN rounds = {}
  /\ totalTests = 3
  /\ providers[1].stats.count = 3
  /\ timers = {}

\* C27: the badge of a current latency below 200 ms is Fast, of a latency
\* from 200 to 500 ms Normal, and of a latency above 500 ms Slow.
C27_BadgeThresholds ==
  LET current == providers[1].stats.current
      badge == createLatencyBadge(current)
  IN  current # Null =>
         /\ current < 200 => badge = "Fast"
         /\ (200 <= current /\ current <= 500) => badge = "Normal"
         /\ current > 500 => badge = "Slow"

\* C28: a failed probe changes only count, failures and current (and the
\* status): min, max, avg, total, successes and history stay as they were,
\* so while no probe has succeeded since the initial state min is Infinity,
\* max 0, avg 0, total 0 and the history empty.
C28_FailureFrame ==
  /\ [][providers'[1].stats.failures = providers[1].stats.failures + 1 =>
          /\ providers'[1].stats =
               [providers[1].stats EXCEPT
                  !.count = @ + 1, !.failures = @ + 1, !.current = Null]
          /\ providers'[1] =
               [providers[1] EXCEPT !.stats = providers'[1].stats,
                                    !.status = "offline"]]_vars
  /\ [](providers[1].stats.successes = 0 =>
          /\ providers[1].stats.min = Infinity
          /\ providers[1].stats.max = 0
          /\ providers[1].stats.avg = 0
          /\ providers[1].stats.total = 0
          /\ providers[1].stats.history = << >>)

\* a probe has just failed after two successes with latency 1: avg, min and
\* max are still 1 and the history still holds the two samples
C28_Witness ==
  /\ lastCall = "aborted"
  /\ providers[1].stats.failures = 1
  /\ providers[1].stats.successes = 2
  /\ providers[1].stats.current = Null
  /\ providers[1].stats.avg = 1 /\ providers[1].stats.min = 1
  /\ providers[1].stats.max = 1 /\ providers[1].stats.total = 2
  /\ Len(providers[1].stats.history) = 2

\* C29: rounds triggered by the repeating timer do not overlap for one
\* provider: a timer tick never dispatches a probe for a provider while a
\* probe of an earlier round for that provider is still in flight.
C29_NoOverlapByTimer ==
  [][lastCall' = "tick" =>
       \A probe \in inflight' \ inflight :
          ~ \E earlier \in inflight : earlier.provider = probe.provider]_vars

\* C30: a registry record with a falsy required field (id, name, endpoint,
\* ping path or color) is dropped at construction: every provider of the
\* monitor has all the required fields.
C30_MalformedRecordsDropped ==
  \A p \in DOMAIN providers :
     /\ providers[p].id # ""
     /\ providers[p].name # ""
     /\ providers[p].endpoint # ""
     /\ providers[p].pingPath # ""
     /\ providers[p].color # ""

----------------------------------------------------------------------------
(* Properties of the error handling, the counters and the rounds *)

\* C31: when the elapsed time measured around a probe is negative or not
\* finite, the probe is recorded as a failure even though its strategy
\* reported success: failures and count rise by one, current becomes null,
\* the status becomes offline, and min, max, avg, total and history are
\* unchanged.
C31_InvalidElapsedIsFailure ==
  [][lastCall' \in {"negative", "NaN", "-Infinity", "Infinity"} =>
       /\ providers'[1].stats =
            [providers[1].stats EXCEPT
               !.count = @ + 1, !.failures = @ + 1, !.current = Null]
       /\ providers'[1].status = "offline"]_vars

\* C32: totalTests counts rounds.  The completion of a round raises it by
\* exactly one, clearStats sets it to 0, and no other step changes it: it
\* never decreases except by clearStats.
C32_TotalTestsMonotone ==
  /\ [][lastCall' = "runTestsResume" => totalTests' = totalTests + 1]_vars
  /\ [][lastCall' = "clearStats" => totalTests' = 0]_vars
  /\ [][lastCall' \notin {"runTestsResume", "clearStats"} =>
          totalTests' = totalTests]_vars
  /\ [][totalTests' < totalTests => lastCall' = "clearStats"]_vars
  /\ [](totalTests >= 0 /\ totalTests <= launched)

\* a round has just completed and been counted after clearStats had reset
\* the counter of the first round
C32_Witness ==
  /\ lastCall = "runTestsResume"
  /\ launched = 2 /\ DOMAIN rounds = {}
  /\ totalTests = 1
  /\ Len(providers) = 1
  /\ providers[1].stats.count = 1

\* C33: status and current are coupled in every reachable state, under any
\* interleaving of rounds, overlapping probes and clearStats: a provider that
\* is online has a current latency, a provider that is offline has none, and
\* a provider that is idle has recorded no probe and has no current latency.
C33_StatusCurrentCoupled ==
  \A p \in DOMAIN providers :
     /\ providers[p].status = "online" => providers[p].stats.current # Null
     /\ providers[p].status = "offline" => providers[p].stats.current = Null
     /\ providers[p].status = "idle" =>
          (providers[p].stats.count = 0 /\ providers[p].stats.current = Null)

\* of two overlapping probes of a provider the first has succeeded: the
\* provider is online with a current latency while the second is in flight,
\* after a clearStats had made it idle with both probes in flight
C33_Witness ==
  /\ Len(providers) = 1
  /\ launched = 2
  /\ Cardinality(inflight) = 1
  /\ totalTests = 0
  /\ providers[1].status = "online"
  /\ providers[1].stats.current = 1
  /\ providers[1].stats.count = 1

\* C34: whenever a provider has recorded a successful probe since the last
\* reset, min <= avg <= max, and min <= current <= max while current is
\* present, for all latencies that are integers >= 0, 0 included.
C34_MinAvgMaxOrdered ==
  LET stats == providers[1].stats
  IN  stats.successes > 0 =>
         /\ stats.min <= stats.avg
         /\ stats.avg <= stats.max
         /\ stats.current # Null =>
              (stats.min <= stats.current /\ stats.current <= stats.max)

\* C35: in every reachable state an armed repeating timer implies that the
\* monitor is running, and the armed timer is the one whose handle the
\* monitor holds; a timer is armed only by a start on a stopped monitor, at
\* a time when no timer is armed, so a timer once armed is cleared before
\* another one is armed.
C35_TimerImpliesRunning ==
  /\ [](timers # {} => isMonitoring)
  /\ [](\A t \in timers : t.id = monitoringInterval)
  /\ [](timers = {} => monitoringInterval = Null)
  /\ [][timers' \ timers # {} =>
          (timers = {} /\ ~isMonitoring /\ isMonitoring' /\ lastCall' = "start")]_vars

\* the second timer is armed on a running monitor, after the first one was
\* cleared by stop
C35_Witness ==
  /\ isMonitoring
  /\ nextTimerId = 3
  /\ timers = {[id |-> 2, period |-> 5000]}
  /\ monitoringInterval = 2
  /\ launched = 2

\* C36: start on a stopped monitor with an interval that is not 'manual' and
\* does not parse to a positive integer (unparseable, zero or negative) makes
\* the monitor running, records the mode and launches the one immediate
\* round, and arms no timer; a start that follows is ignored, as is every
\* start on a running monitor, until stop is called.
C36_InvalidIntervalStart ==
  /\ [][lastCall' = "startInvalid" =>
          /\ ~isMonitoring /\ isMonitoring'
          /\ testMode' \in Modes
          /\ launched' = launched + 1
          /\ DOMAIN rounds' = DOMAIN rounds \cup {launched'}
          /\ rounds'[launched'].trigger = "start"
          /\ Cardinality(inflight' \ inflight) = Len(providers)
          /\ \A p \in DOMAIN providers : providers'[p].status = "testing"
          /\ timers' = timers /\ timers = {}
          /\ monitoringInterval' = Null
          /\ nextTimerId' = nextTimerId]_vars
  /\ [][(isMonitoring /\ lastCall' \in {"start", "startInvalid"}) =>
          (lastCall' = "start" /\ UNCHANGED ProgramVars)]_vars
  /\ [][(lastCall = "startInvalid" /\ isMonitoring' # isMonitoring) =>
          lastCall' = "stop"]_vars
  /\ \A i \in Intervals :
        InvalidInterval(i) <=> i \in {<<"0">>, <<"-", "5">>, <<"x">>}

\* the second start, after a stop, was given an invalid interval: the
\* monitor is running with the probe of its round in flight and no timer
C36_Witness ==
  /\ lastCall = "startInvalid"
  /\ isMonitoring
  /\ timers = {} /\ monitoringInterval = Null
  /\ launched = 2 /\ 2 \in DOMAIN rounds
  /\ Len(providers) = 1
  /\ \E probe \in inflight : probe.round = 2

\* C37: clearStats neither cancels nor discards the probes in flight.  A
\* probe dispatched before clearStats and settling after it (its provider is
\* idle while the probe is in flight) records its result in the reset stats:
\* that provider's count becomes 1 and its status online or offline, the
\* other providers are left as they are (idle with count 0 if they settled
\* before the clear), and the completion of the round raises totalTests from
\* 0 to 1.
C37_ClearStatsKeepsInflight ==
  /\ [][lastCall' = "clearStats" =>
          /\ inflight' = inflight
          /\ rounds' = rounds
          /\ \A probe \in inflight' : providers'[probe.provider].status = "idle"]_vars
  /\ [][\A probe \in inflight :
          (probe \notin inflight' /\ providers[probe.provider].status = "idle") =>
             LET p == probe.provider
             IN  /\ providers[p].stats = InitialStats
                 /\ providers'[p].stats.count = 1
                 /\ providers'[p].stats.successes + providers'[p].stats.failures = 1
                 /\ providers'[p].status \in {"online", "offline"}
                 /\ providers'[p].status = "online" <=>
                       Len(providers'[p].stats.history) = 1
                 /\ \A q \in DOMAIN providers \ {p} : providers'[q] = providers[q]]_vars
  /\ [][(lastCall' = "runTestsResume" /\ totalTests = 0) => totalTests' = 1]_vars

\* of the two probes of a round the first settled before clearStats and the
\* second after it: the first provider is idle with count 0, the second
\* online with count 1, and the completed round has raised totalTests to 1
C37_Witness ==
  /\ lastCall = "runTestsResume"
  /\ Len(providers) = 2
  /\ launched = 1 /\ now = 2 /\ DOMAIN rounds = {}
  /\ providers[1].status = "idle" /\ providers[1].stats.count = 0
  /\ providers[2].status = "online" /\ providers[2].stats.count = 1
  /\ totalTests = 1

\* C38: in an execution in which clearStats is never called, every
\* provider's count is at least totalTests in every reachable state, also
\* while rounds overlap, and equals totalTests (and the number of rounds
\* launched) whenever every launched round has completed.
C38_CountAtLeastTotalTests ==
  \A p \in DOMAIN providers :
     /\ providers[p].stats.count >= totalTests
     /\ providers[p].stats.count <= launched
     /\ DOMAIN rounds = {} =>
          (providers[p].stats.count = totalTests /\ totalTests = launched)

\* two rounds of one provider overlap: the probe of one has settled and the
\* round is not counted yet, the probe of the other being still in flight
C38_Witness ==
  /\ Len(providers) = 1
  /\ launched = 2 /\ DOMAIN rounds = {1, 2}
  /\ totalTests = 0
  /\ providers[1].stats.count = 1
  /\ Cardinality(inflight) = 1

\* C39: if every network request eventually completes, rejects or is aborted
\* by the timeout, then every launched round is eventually counted in
\* totalTests, which happens only after each of its probes has settled and
\* emitted its 'complete'; eventually no probe is in flight, and once no
\* further round is launched no provider stays in status 'testing'.
C39_ProbesAndRoundsTerminate ==
  /\ \A r \in 1..MaxRounds : (r \in DOMAIN rounds) ~> (r \notin DOMAIN rounds)
  /\ [][\A r \in DOMAIN rounds :
          r \notin DOMAIN rounds' =>
             /\ totalTests' = totalTests + 1
             /\ \A probe \in inflight : probe.round # r]_vars
  /\ [][\A probe \in inflight :
          probe \notin inflight' =>
             /\ Len(delivered') = 1
             /\ delivered'[1].event = "complete"
             /\ delivered'[1].round = probe.round
             /\ delivered'[1].provider = providers[probe.provider].id]_vars
  /\ <>[](inflight = {} /\ \A p \in DOMAIN providers :
                              providers[p].status # "testing")

\* the two rounds launched have both been counted, the probes having settled
\* on a timeout and on a response
C39_Witness ==
  /\ launched = 2 /\ DOMAIN rounds = {} /\ inflight = {}
  /\ totalTests = 2
  /\ Len(providers) = 1
  /\ providers[1].stats.failures = 1 /\ providers[1].stats.successes = 1
  /\ providers[1].status = "offline"

\* C40: the renderer refreshes on 'complete' events only (the dispatch of a
\* round, which emits 'testing', leaves the page alone), and whenever every
\* launched round has completed the totalTests the page shows, rendered last
\* by App.updateDisplay, equals the monitor's totalTests.
C40_RenderedCounterFresh ==
  /\ [][launched' = launched + 1 => rendered' = rendered]_vars
  /\ [](DOMAIN rounds = {} => rendered = totalTests)

====
